---- MODULE Spec2Model ----
(***************************************************************************)
(* Model of package rssutil: the Update/diff engine (RSS.Update,           *)
(* RSS.latestItem), the polling scheduler (RSS.Serve, Stop) and the        *)
(* notifier registry (RegisterRSSUpdateNotifier), as written in the        *)
(* version of rss.go that has Stop and the notifier list.                  *)
(*                                                                         *)
(* A publish date is a natural number; NoDate stands for a nil *RFC822.    *)
(* A nil slice and an empty slice are both the empty sequence (the code    *)
(* only ever builds newItems by append, so newItems is nil exactly when    *)
(* it is empty).  A source string is a sequence of one-character strings.  *)
(***************************************************************************)
EXTENDS Integers, Sequences, FiniteSets, TLC

\* ------------------------------------------------------------------ bounds
MaxItems == 2
MaxDate == 3
MaxNow == 2
\* longest document served to the scheduler loop
ServeItems == 1
\* longest text of a title, description or copyright element
MaxLen == 3
\* latest hour of day written in a date text
MaxClock == 1

\* --------------------------------------------------------------- constants
\* DefaultTTL = 20 * time.Minute, in minutes
DefaultTTL == 20
\* length of the prefix compared by rss.source[:4] == "http"
PrefixLen == 4

NoDate == 0
Dates == 0..MaxDate

\* the prefix literal "http"
HttpPrefix == <<"h", "t", "t", "p">>

\* source strings: "rss" (shorter than the prefix), "a.xml", "http.xml"
\* (a local file whose name begins with the prefix), "http://h"
SrcShort == <<"r", "s", "s">>
SrcFile == <<"a", ".", "x", "m", "l">>
SrcHttpFile == <<"h", "t", "t", "p", ".", "x", "m", "l">>
SrcURL == <<"h", "t", "t", "p", ":", "/", "/", "h">>

FileNames == {SrcShort, SrcFile, SrcHttpFile}
URLs == {SrcURL}

\* the callbacks handed to RegisterRSSUpdateNotifier, one registration each
Notifiers == {"f", "g"}
\* the callers of Stop
Stoppers == {"s1", "s2"}
\* the intervals a caller passes to Serve, in minutes
Intervals == {-1, 0, 5}

VARIABLES
    feed,       \* the RSS value: channel (title, ttl, items), source, lastUpdateAt
    createdBy,  \* which constructor built the feed: "bytes", "file" or "url"
    now,        \* the wall clock read by time.Now()
    ret,        \* outcome of the most recent Update call
    fetched,    \* what the acquisition and parse of that call yielded
    sameSource, \* that call fetched the very document the call before it fetched
    last,       \* name of the most recent operation
    loop,       \* the goroutine running rss.Serve: pc, forced, ttl, err
    notifiers,  \* rss.rssUpdateNotifiers
    mu,         \* rss.mu: "free" or the registration holding it
    reg,        \* each RegisterRSSUpdateNotifier call: idle, locked, appended, done
    stop,       \* each Stop call: idle, sending (blocked on stopServe), returned
    spawned,    \* every goroutine started by "go f(newItems)"
    finished,   \* the spawned goroutines whose callback has returned
    peer,       \* the Serve loop of a second feed instance: idle, waiting, stopped
    norm,       \* a call of Feed(b): the raw document and what the parse yields
    pkg         \* a call of the package-level Serve(source, f, ttl)

feedVars == <<feed, createdBy, now, ret, fetched, sameSource>>
schedVars == <<loop, notifiers, mu, reg, stop, spawned, finished>>
otherVars == <<peer, norm, pkg>>
vars == <<feed, createdBy, now, ret, fetched, sameSource, last, loop, notifiers, mu, reg, stop,
          spawned, finished, peer, norm, pkg>>

\* ------------------------------------------------------- parsed documents
RECURSIVE SeqsUpTo(_, _)
SeqsUpTo(S, n) ==
    IF n = 0 THEN {<<>>}
    ELSE LET shorter == SeqsUpTo(S, n - 1)
         IN  shorter \cup {Append(s, x) : s \in {t \in shorter : Len(t) = n - 1}, x \in S}

\* the items of a document, in document order; guid is the item's identity
MkItems(ds) == [i \in 1..Len(ds) |-> [guid |-> i, pubDate |-> ds[i]]]

ItemSeqs(n) == {MkItems(ds) : ds \in SeqsUpTo(Dates, n)}

\* channel metadata other than the items: a title and a ttl in minutes
Metas == {[title |-> "A", ttl |-> 20], [title |-> "B", ttl |-> 0], [title |-> "A", ttl |-> -1]}

ChannelsOf(metas, n) ==
    {[title |-> m.title, ttl |-> m.ttl, items |-> its] : m \in metas, its \in ItemSeqs(n)}

Channels(n) == ChannelsOf(Metas, n)

\* what acquisition followed by Feed(b) yields: an I/O or transport failure,
\* a decode failure, or a parsed channel
FetchResults(metas, n) ==
    {[kind |-> "acquisition"], [kind |-> "parse"]}
        \cup {[kind |-> "ok", channel |-> c] : c \in ChannelsOf(metas, n)}

\* ------------------------------------------------------------ diff engine
\* After, were it to report an equal instant as later
AfterOrEqual(r, t) == r >= t

\* RFC822.After: r.After(t) dereferences both pointers
After(r, t) == r > t

Derefs(r, t) == r # NoDate /\ t # NoDate

\* RSS.latestItem: index of the latest item, 0 for nil, -1 when the
\* comparison dereferences a nil publish date (runtime panic)
RECURSIVE latestFrom(_, _, _)
latestFrom(items, i, cur) ==
    IF i > Len(items) THEN cur
    ELSE IF ~Derefs(items[i].pubDate, items[cur].pubDate) THEN -1
    ELSE IF After(items[i].pubDate, items[cur].pubDate) THEN latestFrom(items, i + 1, i)
    ELSE latestFrom(items, i + 1, cur)

\* latestItem, were the scan for the maximum missing and the first item returned
latestItemFirst(items) ==
    IF Len(items) < 1 THEN 0 ELSE 1

latestItem(items) ==
    IF Len(items) < 1 THEN 0 ELSE latestFrom(items, 2, 1)

\* the loop of Update over the fresh items: the appended newItems, and
\* whether a comparison dereferenced a nil publish date (runtime panic)
RECURSIVE diffFrom(_, _, _, _)
diffFrom(items, i, latestDate, acc) ==
    IF i > Len(items) THEN [panic |-> FALSE, items |-> acc]
    ELSE IF ~Derefs(items[i].pubDate, latestDate) THEN [panic |-> TRUE, items |-> <<>>]
    ELSE IF After(items[i].pubDate, latestDate)
         THEN diffFrom(items, i + 1, latestDate, Append(acc, items[i]))
         ELSE diffFrom(items, i + 1, latestDate, acc)

NoRet == [kind |-> "none", newItems |-> <<>>, transport |-> "none"]

NoFetch == [kind |-> "none"]

\* OnFailure, were the time stamp written before the error is returned
OnFailureStamped(f, t) == [f EXCEPT !.lastUpdateAt = t]

\* the feed after FeedFromURL / FeedFromFile failed inside Update:
\* "return nil, err" before any assignment to rss
OnFailure(f, t) == f

\* rss.Channel.Items = rss2.Channel.Items; rss.lastUpdateAt = time.Now()
Replace(f, c, t) == [f EXCEPT !.channel.items = c.items, !.lastUpdateAt = t]

\* Diff, were the nil check on latestItem missing and every fresh item new
DiffNoNilCheck(li, old, fresh) ==
    IF li = 0 THEN [panic |-> FALSE, items |-> fresh]
    ELSE diffFrom(fresh, 1, old[li].pubDate, <<>>)

\* the tail of Update: "if latestItem == nil { return nil, nil }", then the
\* loop over the fresh items; li is the index latestItem returned in old
Diff(li, old, fresh) ==
    IF li = 0 THEN [panic |-> FALSE, items |-> <<>>]
    ELSE diffFrom(fresh, 1, old[li].pubDate, <<>>)

\* the transport Update picks: rss.source[:4] == "http"
Transport(src) ==
    IF SubSeq(src, 1, PrefixLen) = HttpPrefix THEN "url" ELSE "file"

\* RSS.Update on feed f at time t when the re-acquisition yields res:
\* the feed afterwards, what the call returns, and what was fetched
Update(f, t, res) ==
    LET li == latestItem(f.channel.items)
        out(g, k, items, tr, fe) ==
            [feed |-> g, ret |-> [kind |-> k, newItems |-> items, transport |-> tr], fetched |-> fe]
    IN  IF li = -1 THEN out(f, "panic", <<>>, "none", NoFetch)
        ELSE IF f.source = <<>> THEN out(f, "config", <<>>, "none", NoFetch)
        ELSE IF Len(f.source) < PrefixLen THEN out(f, "panic", <<>>, "none", NoFetch)
        ELSE LET tr == Transport(f.source)
             IN  IF res.kind # "ok" THEN out(OnFailure(f, t), res.kind, <<>>, tr, res)
                 ELSE LET f2 == Replace(f, res.channel, t)
                          d == Diff(li, f.channel.items, f2.channel.items)
                      IN  IF d.panic
                          THEN out(f2, "panic", <<>>, tr, res)
                          ELSE out(f2, "ok", d.items, tr, res)

\* whether an Update fetched the document the previous Update had fetched
SameAsBefore(before, fe) == before.kind = "ok" /\ fe = before

\* no call of Feed(b) is under way
NoNorm == [done |-> FALSE, raw |-> "none", out |-> "none"]

\* the package-level Serve has not been called
NoPkg ==
    [pc |-> "absent", source |-> <<>>, f |-> "none", ttl |-> 0,
     fetch |-> "none", err |-> "none", items |-> <<>>]

\* ------------------------------------------------------------ construction
\* Feed(b), FeedFromFile(filename), FeedFromURL(url) on a well-formed document
NewFeed(c, src, t) == [channel |-> c, source |-> src, lastUpdateAt |-> t]

InitFeed(n, files, urls) ==
    /\ now = 0
    /\ \E c \in Channels(n) :
          \/ feed = NewFeed(c, <<>>, now) /\ createdBy = "bytes"
          \/ \E s \in files : feed = NewFeed(c, s, now) /\ createdBy = "file"
          \/ \E s \in urls : feed = NewFeed(c, s, now) /\ createdBy = "url"
    /\ ret = NoRet
    /\ fetched = NoFetch
    /\ sameSource = FALSE
    /\ last = "Feed"
    /\ loop = [pc |-> "idle", forced |-> 0, ttl |-> 0, err |-> "none"]
    /\ notifiers = <<>>
    /\ mu = "free"
    /\ reg = [r \in Notifiers |-> "idle"]
    /\ stop = [s \in Stoppers |-> "idle"]
    /\ spawned = {}
    /\ finished = {}

\* a runtime panic ends the process
Alive == ret.kind # "panic" /\ loop.pc # "panic"

\* ------------------------------------------------------------- operations
\* time passes
Pass ==
    /\ Alive
    /\ UNCHANGED otherVars
    /\ now < MaxNow
    /\ now' = now + 1
    /\ last' = "Pass"
    /\ UNCHANGED <<feed, createdBy, ret, fetched, sameSource>>
    /\ UNCHANGED schedVars

\* a direct call of rss.Update()
CallUpdate(n) ==
    /\ Alive
    /\ UNCHANGED otherVars
    /\ \E res \in FetchResults(Metas, n) :
          LET u == Update(feed, now, res)
          IN  /\ feed' = u.feed
              /\ ret' = u.ret
              /\ fetched' = u.fetched
              /\ sameSource' = SameAsBefore(fetched, u.fetched)
    /\ last' = "Update"
    /\ UNCHANGED <<createdBy, now>>
    /\ UNCHANGED schedVars

InitUpdate == InitFeed(MaxItems, FileNames, URLs) /\ peer = "absent" /\ norm = NoNorm /\ pkg = NoPkg

NextUpdate == Pass \/ CallUpdate(MaxItems)

SpecUpdate == InitUpdate /\ [][NextUpdate]_vars

\* ---------------------------------------------------------------- scheduler
\* ResolveTTL, were the channel's ttl tested for non-zero instead of positive
ResolveTTLNonZero(ttl, channelTTL) ==
    IF ttl = 0
    THEN IF channelTTL # 0 THEN channelTTL ELSE DefaultTTL
    ELSE ttl

\* the interval resolution at the head of RSS.Serve
ResolveTTL(ttl, channelTTL) ==
    IF ttl = 0
    THEN IF channelTTL > 0 THEN channelTTL ELSE DefaultTTL
    ELSE ttl

\* rss.Serve(ttl) is called: the interval is resolved and the ticker is
\* created; time.NewTicker panics on a non-positive interval
ServeStart ==
    /\ Alive
    /\ UNCHANGED otherVars
    /\ loop.pc = "idle"
    /\ \E d \in Intervals :
          LET ttl == ResolveTTL(d, feed.channel.ttl)
          IN  loop' = [loop EXCEPT !.pc = IF ttl <= 0 THEN "panic" ELSE "waiting",
                                   !.forced = d, !.ttl = ttl]
    /\ last' = "Serve"
    /\ UNCHANGED feedVars
    /\ UNCHANGED <<notifiers, mu, reg, stop, spawned, finished>>

\* case <-ticker.C: the select takes a tick and calls rss.Update()
TickBegin ==
    /\ Alive
    /\ UNCHANGED otherVars
    /\ loop.pc = "waiting"
    /\ now < MaxNow
    /\ now' = now + 1
    /\ loop' = [loop EXCEPT !.pc = "updating"]
    /\ last' = "Tick"
    /\ UNCHANGED <<feed, createdBy, ret, fetched, sameSource>>
    /\ UNCHANGED <<notifiers, mu, reg, stop, spawned, finished>>

\* AfterUpdate, were a failed Update logged and the loop continued
AfterUpdateContinue(r) ==
    IF r.kind = "panic" THEN [pc |-> "panic", err |-> "none"]
    ELSE IF r.kind # "ok" THEN [pc |-> "waiting", err |-> "none"]
    ELSE IF r.newItems # <<>> THEN [pc |-> "dispatch", err |-> "none"]
    ELSE [pc |-> "waiting", err |-> "none"]

\* AfterUpdate, were the "newItems != nil" test missing before the range
AfterUpdateAlwaysDispatch(r) ==
    IF r.kind = "panic" THEN [pc |-> "panic", err |-> "none"]
    ELSE IF r.kind # "ok" THEN [pc |-> "stopped", err |-> r.kind]
    ELSE [pc |-> "dispatch", err |-> "none"]

\* where the loop goes once the Update of a tick has returned
AfterUpdate(r) ==
    IF r.kind = "panic" THEN [pc |-> "panic", err |-> "none"]
    ELSE IF r.kind # "ok" THEN [pc |-> "stopped", err |-> r.kind]
    ELSE IF r.newItems # <<>> THEN [pc |-> "dispatch", err |-> "none"]
    ELSE [pc |-> "waiting", err |-> "none"]

\* the Update of the tick returns; the document served to the loop keeps
\* the channel's title and ttl and varies in its items
TickUpdate(n) ==
    /\ Alive
    /\ UNCHANGED otherVars
    /\ loop.pc = "updating"
    /\ \E res \in FetchResults({[title |-> feed.channel.title, ttl |-> feed.channel.ttl]}, n) :
          LET u == Update(feed, now, res)
              a == AfterUpdate(u.ret)
          IN  /\ feed' = u.feed
              /\ ret' = u.ret
              /\ fetched' = u.fetched
              /\ sameSource' = SameAsBefore(fetched, u.fetched)
              /\ loop' = [loop EXCEPT !.pc = a.pc, !.err = a.err]
    /\ last' = "Update"
    /\ UNCHANGED <<createdBy, now>>
    /\ UNCHANGED <<notifiers, mu, reg, stop, spawned, finished>>

\* Spawn, were the range left after the first notifier
SpawnFirstOnly(list, t, items) ==
    {[tick |-> t, pos |-> i, f |-> list[i], items |-> items] : i \in 1..(IF Len(list) > 0 THEN 1 ELSE 0)}

\* the goroutines started by ranging over a notifier list with newItems
Spawn(list, t, items) ==
    {[tick |-> t, pos |-> i, f |-> list[i], items |-> items] : i \in 1..Len(list)}

\* for _, f := range rss.rssUpdateNotifiers { go f(newItems) }: the list
\* is read without taking rss.mu
Dispatch ==
    /\ Alive
    /\ UNCHANGED otherVars
    /\ loop.pc = "dispatch"
    /\ spawned' = spawned \cup Spawn(notifiers, now, ret.newItems)
    /\ loop' = [loop EXCEPT !.pc = "waiting"]
    /\ last' = "Dispatch"
    /\ UNCHANGED feedVars
    /\ UNCHANGED <<notifiers, mu, reg, stop, finished>>

\* the same read racing with the append of a registration that holds
\* rss.mu: the slice header is read torn, the entries already in the list
\* are started and the go statement on the torn entry ends the process
DispatchTorn ==
    /\ Alive
    /\ UNCHANGED otherVars
    /\ loop.pc = "dispatch"
    /\ \E r \in Notifiers : reg[r] = "locked"
    /\ spawned' = spawned \cup Spawn(notifiers, now, ret.newItems)
    /\ loop' = [loop EXCEPT !.pc = "panic"]
    /\ last' = "Dispatch"
    /\ UNCHANGED feedVars
    /\ UNCHANGED <<notifiers, mu, reg, stop, finished>>

\* a spawned callback runs and returns
NotifierReturn ==
    /\ Alive
    /\ UNCHANGED otherVars
    /\ \E t \in spawned \ finished : finished' = finished \cup {t}
    /\ last' = "Notifier"
    /\ UNCHANGED feedVars
    /\ UNCHANGED <<loop, notifiers, mu, reg, stop, spawned>>

\* RegisterRSSUpdateNotifier: rss.mu.Lock()
RegLock ==
    /\ Alive
    /\ UNCHANGED otherVars
    /\ \E r \in Notifiers :
          /\ reg[r] = "idle"
          /\ mu = "free"
          /\ mu' = r
          /\ reg' = [reg EXCEPT ![r] = "locked"]
    /\ last' = "Register"
    /\ UNCHANGED feedVars
    /\ UNCHANGED <<loop, notifiers, stop, spawned, finished>>

\* rss.rssUpdateNotifiers = append(rss.rssUpdateNotifiers, f)
RegAppend ==
    /\ Alive
    /\ UNCHANGED otherVars
    /\ \E r \in Notifiers :
          /\ reg[r] = "locked"
          /\ notifiers' = Append(notifiers, r)
          /\ reg' = [reg EXCEPT ![r] = "appended"]
    /\ last' = "Register"
    /\ UNCHANGED feedVars
    /\ UNCHANGED <<loop, mu, stop, spawned, finished>>

\* rss.mu.Unlock()
RegUnlock ==
    /\ Alive
    /\ UNCHANGED otherVars
    /\ \E r \in Notifiers :
          /\ reg[r] = "appended"
          /\ mu' = "free"
          /\ reg' = [reg EXCEPT ![r] = "done"]
    /\ last' = "Register"
    /\ UNCHANGED feedVars
    /\ UNCHANGED <<loop, notifiers, stop, spawned, finished>>

\* Stop() is called: the caller blocks in stopServe <- struct{}{}
StopCall ==
    /\ Alive
    /\ UNCHANGED otherVars
    /\ \E s \in Stoppers :
          /\ stop[s] = "idle"
          /\ stop' = [stop EXCEPT ![s] = "sending"]
    /\ last' = "Stop"
    /\ UNCHANGED feedVars
    /\ UNCHANGED <<loop, notifiers, mu, reg, spawned, finished>>

\* CanReceive, were the signal also taken while the tick is being served
CanReceiveMidTick(l) == l.pc \in {"waiting", "updating", "dispatch"}

\* the loop receives from stopServe only in its select, between ticks
CanReceive(l) == l.pc = "waiting"

\* OnStop, were the break unlabelled: it leaves the select, not the loop
OnStopUnlabelled(l) == l

\* break serveLoop; return nil
OnStop(l) == [l EXCEPT !.pc = "stopped", !.err = "nil"]

\* case <-stopServe: the select receives from a blocked sender, whose
\* Stop returns
StopRecv ==
    /\ Alive
    /\ UNCHANGED otherVars
    /\ CanReceive(loop)
    /\ \E s \in Stoppers :
          /\ stop[s] = "sending"
          /\ stop' = [stop EXCEPT ![s] = "returned"]
    /\ loop' = OnStop(loop)
    /\ last' = "StopRecv"
    /\ UNCHANGED feedVars
    /\ UNCHANGED <<notifiers, mu, reg, spawned, finished>>

Init == InitFeed(ServeItems, {}, URLs) /\ peer = "absent" /\ norm = NoNorm /\ pkg = NoPkg

Next ==
    \/ ServeStart
    \/ TickBegin
    \/ TickUpdate(ServeItems)
    \/ Dispatch
    \/ DispatchTorn
    \/ NotifierReturn
    \/ RegLock
    \/ RegAppend
    \/ RegUnlock
    \/ StopCall
    \/ StopRecv

Spec == Init /\ [][Next]_vars

\* ------------------------------------------------- a second feed instance
\* Serve is called on a second feed instance; its loop selects on the same
\* package-level stopServe
PeerServe ==
    /\ Alive
    /\ peer = "idle"
    /\ peer' = "waiting"
    /\ last' = "PeerServe"
    /\ UNCHANGED feedVars
    /\ UNCHANGED schedVars
    /\ UNCHANGED <<norm, pkg>>

\* case <-stopServe in the loop of the second instance: it receives from a
\* blocked sender, whose Stop returns, and that loop returns nil
PeerRecv ==
    /\ Alive
    /\ peer = "waiting"
    /\ \E s \in Stoppers :
          /\ stop[s] = "sending"
          /\ stop' = [stop EXCEPT ![s] = "returned"]
    /\ peer' = "stopped"
    /\ last' = "PeerRecv"
    /\ UNCHANGED feedVars
    /\ UNCHANGED <<loop, notifiers, mu, reg, spawned, finished>>
    /\ UNCHANGED <<norm, pkg>>

InitTwo == InitFeed(ServeItems, {}, URLs) /\ peer = "idle" /\ norm = NoNorm /\ pkg = NoPkg

NextTwo == Next \/ PeerServe \/ PeerRecv

\* two feed instances in one process, every Stop call made on the first
SpecTwo == InitTwo /\ [][NextTwo]_vars

\* ------------------------------------------------------- document parser
\* const cutset = " \t\n"
Cutset == {" ", "\t", "\n"}

\* the characters of element text: the cutset and a letter
Chars == Cutset \cup {"a"}

Texts(n) == SeqsUpTo(Chars, n)

RECURSIVE TrimLeft(_, _)
TrimLeft(s, cutset) ==
    IF s # <<>> /\ Head(s) \in cutset THEN TrimLeft(Tail(s), cutset) ELSE s

RECURSIVE TrimRight(_, _)
TrimRight(s, cutset) ==
    IF s # <<>> /\ s[Len(s)] \in cutset THEN TrimRight(SubSeq(s, 1, Len(s) - 1), cutset) ELSE s

\* Trim, were only the leading characters removed
TrimLeading(s, cutset) == TrimLeft(s, cutset)

\* strings.Trim(s, cutset)
Trim(s, cutset) == TrimRight(TrimLeft(s, cutset), cutset)

\* rfc822layout: "Mon, 02 Jan 2006 15:04:05 MST" and
\* "Mon, 02 Jan 2006 15:04:05 -0700", named by their zone element
rfc822layout == <<"MST", "-0700">>

\* the zone written in a date text: the abbreviation GMT, a numeric offset
\* in hours (+0800, -0100), or text that is neither ("+08:00")
ZoneTexts ==
    {[form |-> "abbr", off |-> 0], [form |-> "num", off |-> 8],
     [form |-> "num", off |-> -1], [form |-> "bad", off |-> 0]}

\* the text of a pubDate element: an hour of day and a zone; the element
\* may be absent
DateTexts ==
    {[present |-> TRUE, clock |-> c, zone |-> z] : c \in 0..MaxClock, z \in ZoneTexts}
        \cup {[present |-> FALSE, clock |-> 0, zone |-> [form |-> "bad", off |-> 0]]}

\* time.Parse(layout, v): the zone element of the layout must fit the zone
\* text; the instant is the clock reading less the offset, in hours
ParseTime(layout, v) ==
    IF (layout = "MST" /\ v.zone.form = "abbr") \/ (layout = "-0700" /\ v.zone.form = "num")
    THEN [err |-> FALSE, instant |-> v.clock - v.zone.off]
    ELSE [err |-> TRUE, instant |-> 0]

\* the range over rfc822layout in UnmarshalXML, from layout i on: the first
\* success is returned, and the last error when every layout fails
RECURSIVE UnmarshalFrom(_, _)
UnmarshalFrom(v, i) ==
    LET p == ParseTime(rfc822layout[i], v)
    IN  IF ~p.err THEN p
        ELSE IF i = Len(rfc822layout) THEN p
        ELSE UnmarshalFrom(v, i + 1)

\* UnmarshalXML, were only the first layout tried
UnmarshalXMLFirstLayout(v) == ParseTime(rfc822layout[1], v)

\* RFC822.UnmarshalXML on the text v
UnmarshalXML(v) == UnmarshalFrom(v, 1)

\* the raw documents handed to Feed: element texts and one item
RawDoc(s1, s2, d) ==
    [title |-> s1, link |-> s2, description |-> s2, copyright |-> s1,
     item |-> [title |-> s2, description |-> s1, pubDate |-> d]]

\* Feed(b): decoder.Decode fails when a date fails to parse; otherwise the
\* title, description and copyright of the channel and the title and
\* description of every item are trimmed; an absent pubDate stays nil
Feed(raw) ==
    LET d == IF raw.item.pubDate.present THEN UnmarshalXML(raw.item.pubDate)
             ELSE [err |-> FALSE, instant |-> 0]
    IN  IF d.err THEN [err |-> TRUE]
        ELSE [err |-> FALSE,
              title |-> Trim(raw.title, Cutset),
              link |-> raw.link,
              description |-> Trim(raw.description, Cutset),
              copyright |-> Trim(raw.copyright, Cutset),
              item |-> [title |-> Trim(raw.item.title, Cutset),
                        description |-> Trim(raw.item.description, Cutset),
                        pubDate |-> [nil |-> ~raw.item.pubDate.present, instant |-> d.instant]]]

\* a call of Feed(b) returns
FeedParse ==
    /\ ~norm.done
    /\ norm' = [norm EXCEPT !.done = TRUE, !.out = Feed(norm.raw)]
    /\ last' = "Feed"
    /\ UNCHANGED feedVars
    /\ UNCHANGED schedVars
    /\ UNCHANGED <<peer, pkg>>

InitParse ==
    /\ InitFeed(0, {}, {})
    /\ feed.channel.ttl = 0
    /\ peer = "absent"
    /\ pkg = NoPkg
    /\ \E s1 \in Texts(MaxLen), s2 \in Texts(MaxLen), d \in DateTexts :
          norm = [done |-> FALSE, raw |-> RawDoc(s1, s2, d), out |-> "none"]

NextParse == FeedParse

SpecParse == InitParse /\ [][NextParse]_vars

\* ------------------------------------------------- package-level Serve
\* var rss *RSS before FeedFromURL / FeedFromFile has returned
NilFeed == NewFeed([title |-> "", ttl |-> 0, items |-> <<>>], <<>>, 0)

\* the constructor Serve picks: source[:4] == "http"
Constructor(src) == IF Transport(src) = "url" THEN "url" ELSE "file"

\* InitialSpawn, were the test "rss.Channel.Items != nil" missing
InitialSpawnAlways(f, t, items) ==
    {[tick |-> t, pos |-> 0, f |-> f, items |-> items]}

\* if rss.Channel.Items != nil { go f(rss.Channel.Items) }; position 0
\* tells this goroutine from those started by the range of a tick
InitialSpawn(f, t, items) ==
    IF items # <<>> THEN {[tick |-> t, pos |-> 0, f |-> f, items |-> items]} ELSE {}

\* Serve(source, f, ttl) up to the return of the constructor: source[:4]
\* panics on a source shorter than the prefix; a failed constructor makes
\* Serve return its error; otherwise rss is the parsed feed
PkgFetch ==
    /\ Alive
    /\ pkg.pc = "called"
    /\ IF Len(pkg.source) < PrefixLen
       THEN /\ pkg' = [pkg EXCEPT !.pc = "panic"]
            /\ loop' = [loop EXCEPT !.pc = "panic"]
            /\ UNCHANGED <<feed, createdBy>>
       ELSE \E res \in FetchResults(Metas, ServeItems) :
               IF res.kind # "ok"
               THEN /\ pkg' = [pkg EXCEPT !.pc = "failed", !.fetch = res.kind, !.err = res.kind]
                    /\ UNCHANGED <<feed, createdBy, loop>>
               ELSE /\ feed' = NewFeed(res.channel, pkg.source, now)
                    /\ createdBy' = Constructor(pkg.source)
                    /\ pkg' = [pkg EXCEPT !.pc = "fetched", !.fetch = "ok",
                                          !.items = res.channel.items]
                    /\ UNCHANGED loop
    /\ last' = "PkgFetch"
    /\ UNCHANGED <<now, ret, fetched, sameSource>>
    /\ UNCHANGED <<notifiers, mu, reg, stop, spawned, finished>>
    /\ UNCHANGED <<peer, norm>>

\* rss.RegisterRSSUpdateNotifier(f): no other goroutine holds rss, so the
\* lock, the append and the unlock are one step
PkgRegister ==
    /\ Alive
    /\ pkg.pc = "fetched"
    /\ mu = "free"
    /\ notifiers' = Append(notifiers, pkg.f)
    /\ pkg' = [pkg EXCEPT !.pc = "registered"]
    /\ last' = "PkgRegister"
    /\ UNCHANGED feedVars
    /\ UNCHANGED <<loop, mu, reg, stop, spawned, finished>>
    /\ UNCHANGED <<peer, norm>>

\* if rss.Channel.Items != nil { go f(rss.Channel.Items) }
PkgNotify ==
    /\ Alive
    /\ pkg.pc = "registered"
    /\ spawned' = spawned \cup InitialSpawn(pkg.f, now, feed.channel.items)
    /\ pkg' = [pkg EXCEPT !.pc = "notified"]
    /\ last' = "PkgNotify"
    /\ UNCHANGED feedVars
    /\ UNCHANGED <<loop, notifiers, mu, reg, stop, finished>>
    /\ UNCHANGED <<peer, norm>>

\* return rss.Serve(ttl): the interval is resolved and the ticker created
PkgEnter ==
    /\ Alive
    /\ pkg.pc = "notified"
    /\ loop.pc = "idle"
    /\ LET ttl == ResolveTTL(pkg.ttl, feed.channel.ttl)
       IN  loop' = [loop EXCEPT !.pc = IF ttl <= 0 THEN "panic" ELSE "waiting",
                                !.forced = pkg.ttl, !.ttl = ttl]
    /\ pkg' = [pkg EXCEPT !.pc = "serving"]
    /\ last' = "Serve"
    /\ UNCHANGED feedVars
    /\ UNCHANGED <<notifiers, mu, reg, stop, spawned, finished>>
    /\ UNCHANGED <<peer, norm>>

\* a caller is about to run Serve(source, f, ttl); no feed exists yet
InitPkg ==
    /\ now = 0
    /\ feed = NilFeed
    /\ createdBy = "none"
    /\ ret = NoRet
    /\ fetched = NoFetch
    /\ sameSource = FALSE
    /\ last = "none"
    /\ loop = [pc |-> "idle", forced |-> 0, ttl |-> 0, err |-> "none"]
    /\ notifiers = <<>>
    /\ mu = "free"
    /\ reg = [r \in Notifiers |-> "idle"]
    /\ stop = [s \in Stoppers |-> "idle"]
    /\ spawned = {}
    /\ finished = {}
    /\ peer = "absent"
    /\ norm = NoNorm
    /\ \E s \in FileNames \cup URLs, f \in Notifiers, d \in Intervals :
          pkg = [NoPkg EXCEPT !.pc = "called", !.source = s, !.f = f, !.ttl = d]

NextPkg ==
    \/ PkgFetch
    \/ PkgRegister
    \/ PkgNotify
    \/ PkgEnter
    \/ TickBegin
    \/ TickUpdate(ServeItems)
    \/ Dispatch
    \/ NotifierReturn
    \/ StopCall
    \/ StopRecv

SpecPkg == InitPkg /\ [][NextPkg]_vars

\* ------------------------------------------------------------------ claims
AllDated(items) == \A i \in 1..Len(items) : items[i].pubDate # NoDate

\* the maximum publish date of a non-empty, fully dated item sequence
MaxPubDate(items) ==
    CHOOSE d \in {items[i].pubDate : i \in 1..Len(items)} :
        \A i \in 1..Len(items) : items[i].pubDate <= d

\* the items of a sequence published strictly after T0, in sequence order
StrictlyAfter(items, T0) ==
    SelectSeq(items, LAMBDA it : it.pubDate # NoDate /\ it.pubDate > T0)

FetchFailed(fe) == fe.kind \in {"acquisition", "parse"}

\* C1: when the re-acquisition or the re-parse of an Update fails, the call
\* returns that error with nil newItems, and the feed (items, channel
\* metadata, source, lastUpdateAt) is exactly what it was before the call.
C1_UpdateAtomicOnFailure ==
    [][(last' = "Update" /\ FetchFailed(fetched'))
        => (ret'.kind = fetched'.kind /\ ret'.newItems = <<>> /\ feed' = feed)]_vars

\* a failed Update on a feed that has items, at a time later than its stamp
C1_Witness ==
    /\ last = "Update"
    /\ FetchFailed(fetched)
    /\ ret.kind = fetched.kind
    /\ feed.channel.items # <<>>
    /\ now > feed.lastUpdateAt

\* C2: for a feed whose prior items are non-empty and all dated, a
\* successful Update returns exactly the freshly parsed items published
\* strictly after T0, the maximum prior publish date, in document order.
C2_NewItemsStrictlyAfterLatest ==
    [][(/\ last' = "Update"
        /\ ret'.kind = "ok"
        /\ feed.channel.items # <<>>
        /\ AllDated(feed.channel.items))
        => ret'.newItems = StrictlyAfter(fetched'.channel.items, MaxPubDate(feed.channel.items))]_vars

\* a successful Update that returned some of the fresh items and held back
\* others (newItems is non-empty only when the prior sequence was)
C2_Witness ==
    /\ last = "Update"
    /\ ret.kind = "ok"
    /\ ret.newItems # <<>>
    /\ Len(ret.newItems) < Len(feed.channel.items)

\* C3: an Update on a feed with no items whose acquisition and parse
\* succeed returns no new items and no error, whatever the fresh document
\* holds, and the feed's items become the fresh ones.
C3_EmptyPriorReportsNothing ==
    [][(last' = "Update" /\ feed.channel.items = <<>> /\ fetched'.kind = "ok")
        => (/\ ret'.kind = "ok"
            /\ ret'.newItems = <<>>
            /\ feed'.channel.items = fetched'.channel.items)]_vars

\* a successful Update that left a non-empty sequence holding an undated
\* item: with a non-empty prior sequence the comparison against that item
\* would have ended the process, so the prior sequence was empty
C3_Witness ==
    /\ last = "Update"
    /\ ret.kind = "ok"
    /\ ret.newItems = <<>>
    /\ feed.channel.items # <<>>
    /\ ~AllDated(feed.channel.items)

\* C4: after every successful Update the feed's whole Channel (title, ttl
\* and the other metadata together with the items) equals the Channel of
\* the freshly parsed document, and lastUpdateAt is the time of the update.
C4_ChannelReplacedWholesale ==
    [][(last' = "Update" /\ ret'.kind = "ok")
        => (feed'.channel = fetched'.channel /\ feed'.lastUpdateAt = now')]_vars

UpdateErrors == {"acquisition", "parse", "config"}

\* the loop leaves its dispatch step in this transition
Dispatches == loop.pc = "dispatch" /\ loop'.pc # "dispatch"

\* C5: when the Update of a tick fails, the loop moves to Stopped and Serve
\* returns that error; the failing tick dispatches to no notifier, and the
\* stopped loop invokes no further Update and starts no further notifier.
C5_FailedTickStopsLoop ==
    [][/\ (loop.pc = "updating" /\ last' = "Update" /\ ret'.kind \in UpdateErrors)
            => (loop'.pc = "stopped" /\ loop'.err = ret'.kind /\ spawned' = spawned)
       /\ (loop.pc = "stopped" /\ loop.err \in UpdateErrors)
            => (loop' = loop /\ feed' = feed /\ ret' = ret /\ spawned' = spawned)]_vars

\* the loop stopped by a failed Update after an earlier tick had dispatched
C5_Witness ==
    /\ loop.pc = "stopped"
    /\ loop.err \in UpdateErrors
    /\ ret.kind = loop.err
    /\ spawned # {}
    /\ \A t \in spawned : t.tick < now

\* C6: a Stop received while the loop waits between ticks moves the loop
\* from Serving to Stopped with Serve returning nil; once a Stop call has
\* returned the loop invokes no further Update and starts no notifier.
C6_StopWhileWaiting ==
    [][/\ (\E s \in Stoppers : stop[s] = "sending" /\ stop'[s] = "returned")
            => (/\ loop.pc = "waiting"
                /\ loop'.pc = "stopped"
                /\ loop'.err = "nil"
                /\ feed' = feed
                /\ spawned' = spawned)
       /\ (\E s \in Stoppers : stop[s] = "returned")
            => (loop' = loop /\ feed' = feed /\ ret' = ret /\ spawned' = spawned)]_vars

\* a Stop has returned, after at least one tick and with ticks still to come
C6_Witness ==
    /\ \E s \in Stoppers : stop[s] = "returned"
    /\ loop.pc = "stopped"
    /\ loop.err = "nil"
    /\ now >= 1
    /\ now < MaxNow

\* C7: a call of Stop never stays blocked: no Stop caller is left sending
\* on stopServe once the loop has returned (after an Update error or an
\* earlier Stop), when nothing will ever receive.
C7_StopNeverBlocks ==
    \A s \in Stoppers : stop[s] = "sending" => loop.pc # "stopped"

\* C8: the loop never reads the notifier list for dispatch while a
\* registration holds rss.mu.
C8_DispatchUnderMutex ==
    [][Dispatches => mu \notin Notifiers]_vars

\* C9: the dispatch of a tick starts exactly one goroutine for every
\* notifier registered by then, each with the newItems of that tick;
\* dispatching waits for no callback to return, and the loop can take its
\* next tick whatever callbacks are still running.
C9_EveryNotifierSpawnedOnce ==
    /\ [][Dispatches
            => (/\ \A r \in Notifiers :
                      reg[r] \in {"appended", "done"}
                          => Cardinality({t \in spawned' \ spawned : t.f = r}) = 1
                /\ \A t \in spawned' \ spawned :
                      t.tick = now /\ t.items = ret.newItems /\ t.items # <<>>
                /\ finished' = finished
                /\ loop'.pc \in {"waiting", "panic"})]_vars
    /\ []((loop.pc = "waiting" /\ now < MaxNow) => ENABLED TickBegin)

\* the loop is in the Update of a later tick while, of two notifiers
\* started by an earlier tick, one has returned and the other has not
C9_Witness ==
    /\ loop.pc = "updating"
    /\ \E t1 \in spawned \ finished, t2 \in finished :
          /\ t1.f # t2.f
          /\ t1.tick = t2.tick
          /\ t1.items = t2.items
          /\ t1.tick < now

\* C10: the tick interval is the caller's interval if non-zero, else the
\* channel's ttl in minutes if positive, else 20 minutes; it is fixed when
\* Serve starts and stays the same for every tick of the loop.
C10_IntervalResolution ==
    /\ [](loop.pc # "idle"
            => loop.ttl = IF loop.forced # 0 THEN loop.forced
                          ELSE IF feed.channel.ttl > 0 THEN feed.channel.ttl
                          ELSE 20)
    /\ [][loop.pc # "idle" => (loop'.ttl = loop.ttl /\ loop'.forced = loop.forced)]_vars

\* the loop in its last tick, ticking at the channel's ttl of 20 minutes
C10_Witness ==
    /\ loop.pc = "updating"
    /\ now = MaxNow
    /\ loop.forced = 0
    /\ feed.channel.ttl = 20
    /\ loop.ttl = 20

\* whether a source string begins with the network prefix
IsHttp(src) == Len(src) >= PrefixLen /\ SubSeq(src, 1, PrefixLen) = HttpPrefix

\* C11: an Update on a feed whose source is empty returns the configuration
\* error and nil newItems without attempting any acquisition and leaves the
\* feed unchanged, whether the feed has items or not.
C11_EmptySourceIsConfigError ==
    [][(last' = "Update" /\ feed.source = <<>>)
        => (/\ ret'.kind = "config"
            /\ ret'.newItems = <<>>
            /\ ret'.transport = "none"
            /\ fetched'.kind = "none"
            /\ feed' = feed)]_vars

\* C12: when the prior or the fresh item sequence holds an item without a
\* publish date, an Update whose acquisition and parse succeed returns
\* normally, and no undated item is among newItems.
C12_UndatedNeverNew ==
    [][(/\ last' = "Update"
        /\ fetched'.kind = "ok"
        /\ (~AllDated(feed.channel.items) \/ ~AllDated(fetched'.channel.items)))
        => (ret'.kind = "ok" /\ AllDated(ret'.newItems))]_vars

\* C13: an Update that attempts an acquisition uses the transport of the
\* constructor that built the feed: a local read for FeedFromFile, a
\* network fetch for FeedFromURL, whatever the source string.
C13_SameTransportAsCreation ==
    [][(last' = "Update" /\ createdBy \in {"file", "url"} /\ ret'.transport # "none")
        => ret'.transport = createdBy]_vars

\* C14: for every non-empty source that does not begin with the network
\* prefix, including one shorter than the prefix, Update treats it as a
\* local path (on fully dated documents): it reads the file or returns the
\* acquisition error, and never ends in a runtime panic.
C14_NonHttpSourceIsLocalPath ==
    [][(/\ last' = "Update"
        /\ feed.source # <<>>
        /\ ~IsHttp(feed.source)
        /\ AllDated(feed.channel.items)
        /\ (fetched'.kind = "ok" => AllDated(fetched'.channel.items)))
        => (ret'.transport = "file" /\ ret'.kind # "panic")]_vars

\* C20: when an Update fetches the very document the successful Update
\* before it fetched, all items dated, it returns no new items and no
\* error and leaves the item sequence as the earlier Update left it.
C20_UpdateIdempotent ==
    [][(last' = "Update" /\ sameSource' /\ AllDated(fetched'.channel.items))
        => (/\ ret'.kind = "ok"
            /\ ret'.newItems = <<>>
            /\ feed'.channel.items = feed.channel.items)]_vars

\* a second Update on an unchanged, dated document of at least two items
\* with different dates
C20_Witness ==
    /\ last = "Update"
    /\ sameSource
    /\ ret.kind = "ok"
    /\ AllDated(fetched.channel.items)
    /\ Len(feed.channel.items) >= 2
    /\ feed.channel.items[1].pubDate # feed.channel.items[2].pubDate

\* C15: no notifier goroutine is ever started with an empty newItems, and
\* a tick whose Update returns nil newItems starts no goroutine.
C15_NoEmptyDispatch ==
    /\ [](\A t \in spawned : t.items # <<>>)
    /\ [][(loop.pc = "updating" /\ last' = "Update" /\ ret'.newItems = <<>>)
            => (loop'.pc # "dispatch" /\ spawned' = spawned)]_vars
    /\ [][spawned' # spawned => (Dispatches /\ ret.newItems # <<>>)]_vars

\* after an earlier tick dispatched to a registered notifier, the Update
\* of the present tick returned nil newItems and the loop waits again
C15_Witness ==
    /\ loop.pc = "waiting"
    /\ last = "Update"
    /\ ret.kind = "ok"
    /\ ret.newItems = <<>>
    /\ spawned # {}
    /\ \A t \in spawned : t.tick < now

\* a Stop call is blocked on stopServe
StopPending == \E s \in Stoppers : stop[s] = "sending"

\* C16: a Stop issued while a tick is being served does not abort it: no
\* Stop returns and the loop is not stopped by the signal until the loop
\* is back in its select; the Update under way completes (items replaced
\* and stamped on success) and the dispatch of the tick starts a goroutine
\* for every listed notifier.
C16_StopNotPreemptive ==
    [][(StopPending /\ loop.pc \in {"updating", "dispatch"})
        => (/\ \A s \in Stoppers : stop'[s] = "returned" => stop[s] = "returned"
            /\ loop'.pc = "stopped" => loop'.err \in UpdateErrors
            /\ (loop.pc = "updating" /\ loop'.pc # "updating")
                  => (/\ last' = "Update"
                      /\ fetched'.kind = "ok"
                            => (/\ feed'.channel.items = fetched'.channel.items
                                /\ feed'.lastUpdateAt = now))
            /\ Dispatches
                  => \A i \in 1..Len(notifiers) :
                        \E t \in spawned' \ spawned : t.f = notifiers[i] /\ t.items = ret.newItems)]_vars

\* Stop has just been called while the Update of a tick is under way
C16_Witness ==
    /\ last = "Stop"
    /\ StopPending
    /\ loop.pc = "updating"

Serving(pc) == pc \in {"waiting", "updating", "dispatch"}

\* C19: with two feed instances both Serving, a Stop invoked on the first
\* returns by stopping the first instance's loop and leaves the loop of
\* the second Serving.
C19_StopIsPerInstance ==
    [][(/\ Serving(loop.pc)
        /\ peer = "waiting"
        /\ \E s \in Stoppers : stop[s] = "sending" /\ stop'[s] = "returned")
        => (loop'.pc = "stopped" /\ peer' = "waiting")]_vars

\* whether time.Parse accepts the text under a layout
Parses(layout, v) == ~ParseTime(layout, v).err

\* C17: the date normalizer returns an error if and only if no layout of
\* the list parses the text, and otherwise the instant of the first layout,
\* in list order, that parses it.
C17_FirstLayoutWins ==
    (norm.done /\ norm.raw.item.pubDate.present)
        => LET v == norm.raw.item.pubDate
               ok == {i \in 1..Len(rfc822layout) : Parses(rfc822layout[i], v)}
           IN  /\ norm.out.err <=> ok = {}
               /\ ok # {}
                     => LET first == CHOOSE i \in ok : \A j \in ok : i <= j
                        IN  /\ ~norm.out.item.pubDate.nil
                            /\ norm.out.item.pubDate.instant
                                   = ParseTime(rfc822layout[first], v).instant

\* a date with a numeric offset was parsed: the first layout failed and
\* the second gave the instant ("01 +0800" is 7 hours before midnight)
C17_Witness ==
    /\ norm.done
    /\ norm.raw.item.pubDate.present
    /\ norm.raw.item.pubDate.zone.form = "num"
    /\ norm.raw.item.pubDate.zone.off = 8
    /\ norm.raw.item.pubDate.clock = 1
    /\ ~norm.out.err
    /\ norm.out.item.pubDate.instant = -7

\* t is raw without its leading and trailing cutset characters: a
\* contiguous part of raw, everything outside it in the cutset, and
\* neither end of t in the cutset
IsTrimOf(raw, t) ==
    /\ \E i \in 1..(Len(raw) + 1), j \in 0..Len(raw) :
          /\ t = SubSeq(raw, i, j)
          /\ \A k \in 1..Len(raw) : (k < i \/ k > j) => raw[k] \in Cutset
    /\ t # <<>> => (t[1] \notin Cutset /\ t[Len(t)] \notin Cutset)

\* C18: after a successful Feed the channel's title, description and
\* copyright and the item's title and description are the raw texts
\* without leading and trailing space, tab and newline, interior
\* characters unchanged, and trimming them again changes nothing.
C18_FieldsTrimmed ==
    (norm.done /\ ~norm.out.err)
        => LET pairs == {<<norm.raw.title, norm.out.title>>,
                         <<norm.raw.description, norm.out.description>>,
                         <<norm.raw.copyright, norm.out.copyright>>,
                         <<norm.raw.item.title, norm.out.item.title>>,
                         <<norm.raw.item.description, norm.out.item.description>>}
           IN  \A p \in pairs : IsTrimOf(p[1], p[2]) /\ Trim(p[2], Cutset) = p[2]

\* a parsed document whose raw title had a letter between a leading and a
\* trailing cutset character, and whose raw description was all cutset
C18_Witness ==
    /\ norm.done
    /\ ~norm.out.err
    /\ Len(norm.raw.title) = 3
    /\ norm.out.title = <<"a">>
    /\ norm.raw.description # <<>>
    /\ norm.out.description = <<>>

\* the goroutines started by the initial "go f(...)" of the package-level Serve
InitialCalls == {t \in spawned : t.pos = 0}

\* the call of Serve has passed its initial fetch with a parsed feed
PkgFetchedOk == pkg.pc \in {"fetched", "registered", "notified", "serving"}

\* C21: the package-level Serve returns the acquisition or parse error of
\* the initial fetch without invoking f and without starting a loop; on a
\* successful initial fetch it registers f exactly once, starts f once on
\* all the initial items when they are non-nil and never when they are nil,
\* and only then enters the scheduler loop.
C21_PackageServeOrder ==
    /\ [](pkg.fetch \in {"acquisition", "parse"}
            => /\ pkg.pc = "failed"
               /\ pkg.err = pkg.fetch
               /\ spawned = {}
               /\ notifiers = <<>>
               /\ loop.pc = "idle")
    /\ [](pkg.pc \in {"notified", "serving"}
            => /\ notifiers = <<pkg.f>>
               /\ InitialCalls
                     = IF pkg.items # <<>>
                       THEN {[tick |-> 0, pos |-> 0, f |-> pkg.f, items |-> pkg.items]}
                       ELSE {})
    /\ [](PkgFetchedOk => Len(notifiers) <= 1)
    /\ [](pkg.pc \in {"called", "fetched", "registered"} => spawned = {})
    /\ [](pkg.pc \in {"called", "fetched", "registered", "notified"} => loop.pc = "idle")
    /\ [][(loop.pc = "idle" /\ loop'.pc = "waiting")
            => (pkg.pc = "notified" /\ pkg'.pc = "serving" /\ notifiers = <<pkg.f>>)]_vars

\* Serve fetched a feed with items, registered f, started f on the initial
\* items and is now waiting in the scheduler loop, no tick taken yet
C21_Witness ==
    /\ pkg.pc = "serving"
    /\ loop.pc = "waiting"
    /\ pkg.items # <<>>
    /\ notifiers = <<pkg.f>>
    /\ spawned = {[tick |-> 0, pos |-> 0, f |-> pkg.f, items |-> pkg.items]}
    /\ now = 0

====
